---- MODULE Spec2Model ----
(***************************************************************************)
(* Model of validate_toml.py: open the fixed file read-only, hand the      *)
(* handle to tomllib.load, print "TOML is valid" or "TOML error: <e>".     *)
(*                                                                         *)
(* The file system entry at the fixed path is the input.  A regular file   *)
(* holds a sequence of bytes (integers) drawn from a small alphabet; the   *)
(* decoder is the statement loop of tomllib restricted to that alphabet    *)
(* (bare keys, '=', decimal integers, newlines, one non-UTF-8 byte).       *)
(* A process run is a walk of pc through the nine lines of the script;     *)
(* Relaunch starts the next process against the same file system.          *)
(***************************************************************************)
EXTENDS Integers, Sequences, FiniteSets, TLC

VARIABLES file, before, pc, handle, exc, stdout, status, loadCalls, run, outputs

vars == <<file, before, pc, handle, exc, stdout, status, loadCalls, run, outputs>>

(* ---------------------------- bounds ----------------------------------- *)

\* longest file content explored, in bytes
MaxLen == 3

\* number of consecutive process runs against the same file system
Runs == 2

(* ---------------------------- the input -------------------------------- *)

\* 'a', '=', '1', newline, and a byte that is not valid UTF-8
Alphabet == {97, 61, 49, 10, 255}

RECURSIVE BytesUpTo(_)
BytesUpTo(n) ==
    IF n = 0 THEN {<<>>}
    ELSE LET shorter == BytesUpTo(n - 1)
         IN  shorter \cup {Append(s, b) : s \in {t \in shorter : Len(t) = n - 1}, b \in Alphabet}

Regular(data) == [kind |-> "regular", data |-> data]

FileStates ==
    {[kind |-> k, data |-> <<>>] : k \in {"missing", "denied", "directory"}}
        \cup {Regular(d) : d \in BytesUpTo(MaxLen)}

Path == ".gemini/commands/refactor/surgical.toml"

(* ---------------------------- exceptions ------------------------------- *)

NoExc == [type |-> "None", msg |-> ""]

Raise(type, msg) == [type |-> type, msg |-> msg]

\* base classes of the exception types the script can meet
Mro(type) ==
    CASE type = "FileNotFoundError"  -> {"FileNotFoundError", "OSError", "Exception", "BaseException"}
      [] type = "PermissionError"    -> {"PermissionError", "OSError", "Exception", "BaseException"}
      [] type = "IsADirectoryError"  -> {"IsADirectoryError", "OSError", "Exception", "BaseException"}
      [] type = "UnicodeDecodeError" -> {"UnicodeDecodeError", "UnicodeError", "ValueError", "Exception", "BaseException"}
      [] type = "TOMLDecodeError"    -> {"TOMLDecodeError", "ValueError", "Exception", "BaseException"}
      [] OTHER                       -> {"BaseException"}

ExceptMatches_OSError(type) == "OSError" \in Mro(type)

\* except Exception as e
ExceptMatches(type) == "Exception" \in Mro(type)

(* ---------------------------- open(path, "rb") ------------------------- *)

\* the exception open() raises for the entry at the path, NoExc when it opens
OpenResult(f) ==
    CASE f.kind = "missing"   -> Raise("FileNotFoundError", "[Errno 2] No such file or directory: '" \o Path \o "'")
      [] f.kind = "denied"    -> Raise("PermissionError", "[Errno 13] Permission denied: '" \o Path \o "'")
      [] f.kind = "directory" -> Raise("IsADirectoryError", "[Errno 21] Is a directory: '" \o Path \o "'")
      [] OTHER                -> NoExc

FileAfterOpen_truncate(f) == IF f.kind = "regular" THEN Regular(<<>>) ELSE f

FileAfterOpen_create(f) == IF f.kind = "missing" THEN Regular(<<>>) ELSE f

\* mode "rb" neither creates nor truncates: the entry is left as it was
FileAfterOpen(f) == f

(* ---------------------------- tomllib.load ----------------------------- *)

TOML_WS == {32, 9}

BARE_KEY_CHARS == (48..57) \cup (65..90) \cup (97..122) \cup {45, 95}

DIGITS == 48..57

\* src[pos] with Python's 0-based positions
At(src, pos) == src[pos + 1]

RECURSIVE skip_chars(_, _, _)
skip_chars(src, pos, chars) ==
    IF pos < Len(src) /\ At(src, pos) \in chars
    THEN skip_chars(src, pos + 1, chars)
    ELSE pos

RECURSIVE CountNewlines(_, _)
CountNewlines(src, pos) ==
    IF pos = 0 THEN 0
    ELSE CountNewlines(src, pos - 1) + (IF At(src, pos - 1) = 10 THEN 1 ELSE 0)

RECURSIVE LastNewline(_, _)
LastNewline(src, pos) ==
    IF pos = 0 THEN -1
    ELSE IF At(src, pos - 1) = 10 THEN pos - 1 ELSE LastNewline(src, pos - 1)

coord_repr(src, pos) ==
    IF pos >= Len(src) THEN "end of document"
    ELSE LET line == CountNewlines(src, pos) + 1
             column == IF line = 1 THEN pos + 1 ELSE pos - LastNewline(src, pos)
         IN  "line " \o ToString(line) \o ", column " \o ToString(column)

suffixed_err(src, pos, msg) ==
    Raise("TOMLDecodeError", msg \o " (at " \o coord_repr(src, pos) \o ")")

\* a decimal integer at pos: the position after it, or pos when none matches
parse_number(src, pos) ==
    IF pos < Len(src) /\ At(src, pos) \in (DIGITS \ {48})
    THEN skip_chars(src, pos, DIGITS)
    ELSE pos

RECURSIVE statements(_, _, _)
\* the statement loop of loads(): NoExc when the document is accepted
statements(src, pos0, keys) ==
    LET pos == skip_chars(src, pos0, TOML_WS) IN
    IF pos >= Len(src) THEN NoExc
    ELSE IF At(src, pos) = 10 THEN statements(src, pos + 1, keys)
    ELSE IF At(src, pos) \notin BARE_KEY_CHARS THEN suffixed_err(src, pos, "Invalid statement")
    ELSE
      LET keyEnd == skip_chars(src, pos, BARE_KEY_CHARS)
          key == SubSeq(src, pos + 1, keyEnd)
          eq == skip_chars(src, keyEnd, TOML_WS)
      IN
      IF eq >= Len(src) \/ At(src, eq) # 61
      THEN suffixed_err(src, eq, "Expected '=' after a key in a key/value pair")
      ELSE
        LET valStart == skip_chars(src, eq + 1, TOML_WS)
            valEnd == parse_number(src, valStart)
        IN
        IF valEnd = valStart THEN suffixed_err(src, valStart, "Invalid value")
        ELSE IF key \in keys THEN suffixed_err(src, valEnd, "Cannot overwrite a value")
        ELSE
          LET eol == skip_chars(src, valEnd, TOML_WS) IN
          IF eol >= Len(src) THEN NoExc
          ELSE IF At(src, eol) # 10
          THEN suffixed_err(src, eol, "Expected newline or end of document after a statement")
          ELSE statements(src, eol + 1, keys \cup {key})

loads_nonempty(s) ==
    IF Len(s) = 0 THEN suffixed_err(s, 0, "Invalid statement") ELSE statements(s, 0, {})

\* loads(s): start the loop at position 0 with no key defined
loads(s) == statements(s, 0, {})

RECURSIVE FirstBad(_, _)
FirstBad(b, pos) ==
    IF pos >= Len(b) THEN -1
    ELSE IF At(b, pos) >= 128 THEN pos
    ELSE FirstBad(b, pos + 1)

\* b.decode(): the bytes of the alphabet above 0x7f start no UTF-8 sequence
decode(b) ==
    LET bad == FirstBad(b, 0) IN
    IF bad < 0 THEN NoExc
    ELSE Raise("UnicodeDecodeError",
               "'utf-8' codec can't decode byte 0xff in position " \o ToString(bad)
                   \o ": invalid start byte")

\* tomllib.load(f): read everything, decode, parse; the document is discarded
tomllib_load(b) == IF decode(b) # NoExc THEN decode(b) ELSE loads(b)

(* ---------------------------- the script ------------------------------- *)

ValidLine_typo == "TOML valid"

ValidLine == "TOML is valid"

ErrorLine_repr(e) == "TOML error: " \o e.type

ErrorLine_multiline(e) == "TOML error:\n" \o e.msg

\* f"TOML error: {e}"
ErrorLine(e) == "TOML error: " \o e.msg

\* print(text): the text and a newline on standard output
print(out, text) == out \o text \o "\n"

HandleAfterExit_leak(raised) == IF raised THEN "open" ELSE "closed"

HandleAfterExit_late(raised) == IF raised THEN "closed" ELSE "open"

\* __exit__ of the with block closes the handle whether or not the body raised
HandleAfterExit(raised) == "closed"

PcAfterLoadFail_retry(n) == IF n < 2 THEN "with_body" ELSE "with_exit_exc"

\* an exception from the body unwinds through the with block; nothing retries
PcAfterLoadFail(n) == "with_exit_exc"

Init ==
    /\ file \in FileStates
    /\ before = file
    /\ pc = "try"
    /\ handle = "none"
    /\ exc = NoExc
    /\ stdout = ""
    /\ status = -1
    /\ loadCalls = 0
    /\ run = 1
    /\ outputs = <<>>

\* line 5: open(path, "rb")
Open ==
    /\ pc = "try"
    /\ file' = FileAfterOpen(file)
    /\ IF OpenResult(file) = NoExc
       THEN /\ handle' = "open"
            /\ pc' = "with_body"
            /\ exc' = exc
       ELSE /\ handle' = handle
            /\ pc' = "except"
            /\ exc' = OpenResult(file)
    /\ UNCHANGED <<before, stdout, status, loadCalls, run, outputs>>

\* line 6: tomllib.load(f)
Load ==
    /\ pc = "with_body"
    /\ loadCalls' = loadCalls + 1
    /\ IF tomllib_load(file.data) = NoExc
       THEN /\ pc' = "with_exit"
            /\ exc' = exc
       ELSE /\ pc' = PcAfterLoadFail(loadCalls')
            /\ exc' = tomllib_load(file.data)
    /\ UNCHANGED <<file, before, handle, stdout, status, run, outputs>>

\* lines 5-6: leaving the with block, normally or by an exception
WithExit ==
    /\ pc \in {"with_exit", "with_exit_exc"}
    /\ handle' = HandleAfterExit(pc = "with_exit_exc")
    /\ pc' = IF pc = "with_exit" THEN "print_valid" ELSE "except"
    /\ UNCHANGED <<file, before, exc, stdout, status, loadCalls, run, outputs>>

\* line 7: print("TOML is valid"), then the script ends
PrintValid ==
    /\ pc = "print_valid"
    /\ stdout' = print(stdout, ValidLine)
    /\ pc' = "done"
    /\ status' = 0
    /\ UNCHANGED <<file, before, handle, exc, loadCalls, run, outputs>>

\* line 8: except Exception as e; an exception it does not match ends the process
ExceptClause ==
    /\ pc = "except"
    /\ IF ExceptMatches(exc.type)
       THEN /\ pc' = "handler"
            /\ status' = status
       ELSE /\ pc' = "done"
            /\ status' = 1
    /\ UNCHANGED <<file, before, handle, exc, stdout, loadCalls, run, outputs>>

\* line 9: print(f"TOML error: {e}"), then the script ends
PrintError ==
    /\ pc = "handler"
    /\ stdout' = print(stdout, ErrorLine(exc))
    /\ pc' = "done"
    /\ status' = 0
    /\ UNCHANGED <<file, before, handle, exc, loadCalls, run, outputs>>

\* the program is run again: a fresh process, the file system as it was left
Relaunch ==
    /\ pc = "done"
    /\ run < Runs
    /\ outputs' = Append(outputs, stdout)
    /\ run' = run + 1
    /\ before' = file
    /\ pc' = "try"
    /\ handle' = "none"
    /\ exc' = NoExc
    /\ stdout' = ""
    /\ status' = -1
    /\ loadCalls' = 0
    /\ UNCHANGED file

Next ==
    \/ Open
    \/ Load
    \/ WithExit
    \/ PrintValid
    \/ ExceptClause
    \/ PrintError
    \/ Relaunch

Spec == Init /\ [][Next]_vars

\* the interpreter executes the statements of a started process one after another;
\* nothing obliges anyone to run the program again
Step == Open \/ Load \/ WithExit \/ PrintValid \/ ExceptClause \/ PrintError

FairSpec == Spec /\ WF_vars(Step)

(* ---------------------------- properties ------------------------------- *)

Done == pc = "done"

StartsWith(s, p) == Len(s) >= Len(p) /\ SubSeq(s, 1, Len(p)) = p

NewlineCount(s) == Cardinality({i \in 1..Len(s) : SubSeq(s, i, i) = "\n"})

\* the failure the entry at the path leads to, NoExc when it opens and decodes
Failure(f) == IF OpenResult(f) # NoExc THEN OpenResult(f) ELSE tomllib_load(f.data)

\* C1: when the file opens and the decoder raises nothing, the finished process
\* has written exactly the line "TOML is valid" and no "TOML error: " line.
C1_ValidPrinted ==
    (Done /\ OpenResult(before) = NoExc /\ tomllib_load(before.data) = NoExc)
        => (stdout = "TOML is valid\n" /\ ~StartsWith(stdout, "TOML error: "))

C1_Witness ==
    Done /\ before = Regular(<<97, 61, 49>>) /\ exc = NoExc /\ stdout = "TOML is valid\n"

\* C2: when opening or decoding fails, the failure is caught and the finished
\* process has written "TOML error: <message>" with the non-empty text of that
\* failure, in the same format for both causes, and not "TOML is valid".
C2_ErrorPrinted ==
    (Done /\ Failure(before) # NoExc)
        => /\ exc = Failure(before)
           /\ Len(exc.msg) > 0
           /\ stdout = "TOML error: " \o Failure(before).msg \o "\n"
           /\ stdout # "TOML is valid\n"

C2_Witness ==
    /\ Done
    /\ before = Regular(<<97, 61>>)
    /\ stdout = "TOML error: Invalid value (at end of document)\n"

\* C3: every started process ends, and ends with exit status 0, on the
\* success branch and on the failure branch alike.
C3_ExitsZero ==
    /\ [](Done => status = 0)
    /\ ((pc = "try") ~> Done)

C3_Witness ==
    Done /\ status = 0 /\ exc.type = "UnicodeDecodeError" /\ handle = "closed"

\* C4: the standard output of a finished process is exactly one line, and
\* that line is "TOML is valid" or starts with "TOML error: ", never both.
C4_OneLine ==
    Done =>
        /\ NewlineCount(stdout) = 1
        /\ SubSeq(stdout, Len(stdout), Len(stdout)) = "\n"
        /\ (stdout = "TOML is valid\n") # StartsWith(stdout, "TOML error: ")

C4_Witness ==
    /\ Done
    /\ before.kind = "directory"
    /\ StartsWith(stdout, "TOML error: [Errno 21]")
    /\ NewlineCount(stdout) = 1

\* C5 as stated: in every finished process the decoder has been invoked
\* exactly once, also when opening the file failed.
C5_ExactlyOnceAlways == Done => loadCalls = 1

\* C5 amended: the decoder is never invoked more than once; a finished process
\* has invoked it exactly once when the open succeeded and not at all when the
\* open failed.
C5_OnceIfOpened ==
    /\ loadCalls <= 1
    /\ Done => loadCalls = (IF OpenResult(before) = NoExc THEN 1 ELSE 0)

C5_Witness ==
    Done /\ before.kind = "missing" /\ loadCalls = 0 /\ StartsWith(stdout, "TOML error: [Errno 2]")

\* C6: a finished process holds no open handle; when the open succeeded the
\* handle has been closed, whether decoding succeeded or raised.
C6_HandleReleased ==
    Done => /\ handle # "open"
            /\ (OpenResult(before) = NoExc => handle = "closed")

C6_Witness ==
    Done /\ handle = "closed" /\ exc.type = "TOMLDecodeError" /\ loadCalls = 1

\* C7: the program writes nothing: at every point of a run the entry at the
\* path is what it was when the process was started.
C7_FileUnchanged == file = before

C7_Witness ==
    Done /\ run = Runs /\ before = Regular(<<97, 61, 49>>) /\ file = before

\* C8: a run against the file state an earlier run saw prints what that
\* earlier run printed.
C8_SameOutput ==
    Done => \A i \in 1..Len(outputs) : outputs[i] = stdout

C8_Witness ==
    /\ Done
    /\ Len(outputs) = 1
    /\ before.kind = "missing"
    /\ outputs[1] = stdout
    /\ StartsWith(stdout, "TOML error: ")

\* C9: an existing file of zero bytes is accepted as a valid document and the
\* program prints "TOML is valid".
C9_EmptyIsValid ==
    (Done /\ before = Regular(<<>>)) => stdout = "TOML is valid\n"

C9_Witness ==
    Done /\ before = Regular(<<>>) /\ loadCalls = 1 /\ exc = NoExc /\ StartsWith(stdout, "TOML is valid")

\* C10: nothing is written to standard output while the handle is open: the
\* handle is closed before the success line and before the error line.
C10_ClosedBeforeOutput == stdout # "" => handle # "open"

C10_Witness ==
    /\ stdout = "TOML error: Invalid statement (at line 1, column 1)\n"
    /\ handle = "closed"

====
